---- MODULE Spec2Model ----
(***************************************************************************)
(* A model of dig (src/main.go): the screen composer, the commit list      *)
(* area, the diff area with its scrolling window, the find engine and the  *)
(* main event loop.                                                        *)
(*                                                                         *)
(* The two package-level pointers of the program, `dig` and `screen`, are  *)
(* the two main variables; every method is an operator from the receiver   *)
(* (and its arguments) to the receiver after the call.  Strings are        *)
(* sequences of runes; a rune is a one-character TLA+ string.              *)
(*                                                                         *)
(* One step of main's loop is either a draw (Screen.Draw and Flush) or the *)
(* receipt of one event, its handling and the Clear that opens the next    *)
(* iteration.  A run-time panic ends the program: pc = "panic".            *)
(* StatusArea.Draw changes no program state and its cells are not logged;  *)
(* the side width file is read before the loop and written at the quit,    *)
(* and is not part of the state.                                           *)
(*                                                                         *)
(* Spec is the whole program, with every event received as soon as it is   *)
(* polled and the last-commit file empty when the loop is entered.         *)
(* SpecFind and SpecRender start the same program in states that exercise  *)
(* the find engine and the drawing loops over wider inputs, and take only  *)
(* the steps that apply them.  SpecMode types the quit character in        *)
(* FindMode; SpecLoop lets the polling goroutine run ahead of the loop;    *)
(* SpecSave quits and starts dig again over every last-commit file.        *)
(***************************************************************************)
EXTENDS Integers, Sequences, FiniteSets, TLC

VARIABLES
    dig,      \* *Program: Mode, CurView, Commits, FindString
    screen,   \* *Screen: size, SideWidth, Commit, Diff, Status
    pc,       \* position of main's loop: "draw", "poll", "exit", "panic"
    cells,    \* the termbox.SetCell calls CommitArea.Draw or DiffArea.Draw made
              \* since the latest termbox.Clear, in call order
    fetches,  \* the commitDiff calls made since the latest termbox.Clear
    events,   \* the channel `events` of main: the events sent and not yet received
    conf      \* ~/.config/dig/last-commit: its lines, each a string

vars == <<dig, screen, pc, cells, fetches, events, conf>>

----------------------------------------------------------------------------
(* Bounds of the model *)

\* longest find string that is typed
MaxFind == 2
\* largest side width reached with '>'
MaxSide == 2
\* largest horizontal scroll column reached with MoveRight
MaxCol == 4
\* largest n of MoveDown(n), MoveUp(n) in the round trip property
MaxMove == 3

----------------------------------------------------------------------------
(* Values *)

\* Pt{L, O}
Pt(l, o) == [L |-> l, O |-> o]

\* Pt.Add
Add(p, q) == Pt(p.L + q.L, p.O + q.O)

\* Rect{Min, Size}
Rect(min, size) == [Min |-> min, Size |-> size]

\* the nil slice and the empty string
nil == <<>>

\* the rune 0, ev.Ch of an event that carries a Key
NUL == "NUL"

\* a rune of display width 2
WideRunes == {"W"}

\* runewidth.RuneWidth as dig uses it
RuneWidth(r) == IF r = NUL THEN 0 ELSE IF r \in WideRunes THEN 2 ELSE 1

\* CommitView / DiffView
CommitView == "CommitView"
DiffView == "DiffView"

\* NormalMode / FindMode
NormalMode == "NormalMode"
FindMode == "FindMode"

\* termbox colors
ColorWhite == "white"
ColorBlack == "black"
ColorGreen == "green"
ColorRed == "red"

\* Color{Fg, Bg}
Color(fg, bg) == [Fg |-> fg, Bg |-> bg]

\* one termbox.SetCell(x, y, ch, fg, bg) call
SetCell(x, y, ch, fg, bg) == [x |-> x, y |-> y, ch |-> ch, fg |-> fg, bg |-> bg]

\* Commit{Hash, Title}
Commit(hash, title) == [Hash |-> hash, Title |-> title]

----------------------------------------------------------------------------
(* Window *)

\* Window.Reset
Reset(w, t) == [w EXCEPT !.Text = t, !.Bound.Min = Pt(0, 0)]

\* Window.MoveUp
MoveUp(w, n) ==
    LET l == w.Bound.Min.L - n
    IN  [w EXCEPT !.Bound.Min.L = IF l < 0 THEN 0 ELSE l]

\* MoveDown setting the line to n instead of adding n
MoveDownAssign(w, n) ==
    [w EXCEPT !.Bound.Min.L = IF n >= Len(w.Text) THEN Len(w.Text) - 1 ELSE n]

\* Window.MoveDown
MoveDown(w, n) ==
    LET l == w.Bound.Min.L + n
    IN  [w EXCEPT !.Bound.Min.L = IF l >= Len(w.Text) THEN Len(w.Text) - 1 ELSE l]

\* MoveLeft without the clamp at column 0
MoveLeftUnclamped(w, n) == [w EXCEPT !.Bound.Min.O = w.Bound.Min.O - n]

\* Window.MoveLeft
MoveLeft(w, n) ==
    LET o == w.Bound.Min.O - n
    IN  [w EXCEPT !.Bound.Min.O = IF o < 0 THEN 0 ELSE o]

\* Window.MoveRight
MoveRight(w, n) == [w EXCEPT !.Bound.Min.O = w.Bound.Min.O + n]

\* Window.PageForward
PageForward(w) == MoveDown(w, w.Bound.Size.L)

\* Window.PageBackward
PageBackward(w) == MoveUp(w, w.Bound.Size.L)

\* Window.HalfPageForward
HalfPageForward(w) == MoveDown(w, w.Bound.Size.L \div 2)

\* Window.HalfPageBackward
HalfPageBackward(w) == MoveUp(w, w.Bound.Size.L \div 2)

----------------------------------------------------------------------------
(* Screen *)

\* Resize leaving the window's size as it was
ResizeStaleWindow(s, size) ==
    LET mainArea == Rect(Pt(0, s.SideWidth), Pt(size.L - 1, size.O - s.SideWidth))
    IN  [s EXCEPT !.size = size,
                  !.Commit.Bound = mainArea,
                  !.Diff.Bound = mainArea,
                  !.Status.Bound = Rect(Pt(size.L - 1, 0), Pt(1, size.O))]

\* Screen.Resize
Resize(s, size) ==
    LET mainArea == Rect(Pt(0, s.SideWidth), Pt(size.L - 1, size.O - s.SideWidth))
    IN  [s EXCEPT !.size = size,
                  !.Commit.Bound = mainArea,
                  !.Diff.Bound = mainArea,
                  !.Diff.Win.Bound.Size = mainArea.Size,
                  !.Status.Bound = Rect(Pt(size.L - 1, 0), Pt(1, size.O))]

\* Screen.ExpandSide
ExpandSide(s, n) ==
    LET w == s.SideWidth + n
    IN  Resize([s EXCEPT !.SideWidth = IF w < 0 THEN 0 ELSE w], s.size)

\* NewScreen
NewScreen(size, sideWidth) ==
    Resize([size |-> size,
            SideWidth |-> sideWidth,
            Commit |-> [Bound |-> Rect(Pt(0, 0), Pt(0, 0)), CurIdx |-> 0, TopIdx |-> 0],
            Diff |-> [CommitHash |-> nil, Text |-> nil,
                      Bound |-> Rect(Pt(0, 0), Pt(0, 0)),
                      Win |-> [Bound |-> Rect(Pt(0, 0), Pt(0, 0)), Text |-> nil]],
            Status |-> [Bound |-> Rect(Pt(0, 0), Pt(0, 0))]],
           size)

----------------------------------------------------------------------------
(* termbox events *)

NoKey == "0"
KeyEvent(key) == [Type |-> "EventKey", Key |-> key, Ch |-> NUL]
ChEvent(ch) == [Type |-> "EventKey", Key |-> NoKey, Ch |-> ch]

\* the keys the program reads, and two it has no binding for
Keys ==
    {"KeyArrowUp", "KeyArrowDown", "KeyArrowLeft", "KeyArrowRight", "KeyPgup",
     "KeyPgdn", "KeyHome", "KeyEnd", "KeyEnter", "KeyTab", "KeyEsc", "KeyCtrlF",
     "KeyCtrlQ", "KeyCtrlK", "KeyBackspace", "KeyBackspace2", "KeySpace",
     "KeyInsert", "KeyDelete"}

\* the characters NormalMode binds, and one it does not
NormalChars ==
    {"i", "k", "b", "f", "u", "d", ".", "<", ">", ",", "m", "o", "j", "l", "q", "a"}

\* the characters typed into the find string
FindChars == {"a"}

----------------------------------------------------------------------------
(* CommitArea *)

\* CommitArea.Handle: whether the event is one the area handles
CommitAreaHandles(ev) ==
    \/ ev.Key \in {"KeyArrowUp", "KeyArrowDown", "KeyPgup", "KeyPgdn", "KeyHome", "KeyEnd"}
    \/ ev.Ch \in {"i", "k", "b", "f", "u", "d"}

\* CommitArea.Handle: the area after the event
CommitAreaHandle(a, commits, ev) ==
    LET h == a.Bound.Size.L
        moved ==
            IF ev.Key = "KeyArrowUp" \/ ev.Ch = "i" THEN a.CurIdx - 1
            ELSE IF ev.Key = "KeyArrowDown" \/ ev.Ch = "k" THEN a.CurIdx + 1
            ELSE IF ev.Key = "KeyPgup" \/ ev.Ch = "b" THEN a.CurIdx - h
            ELSE IF ev.Key = "KeyPgdn" \/ ev.Ch = "f" THEN a.CurIdx + h
            ELSE IF ev.Ch = "u" THEN a.CurIdx - (h \div 2)
            ELSE IF ev.Ch = "d" THEN a.CurIdx + (h \div 2)
            ELSE IF ev.Key = "KeyHome" THEN 0
            ELSE IF ev.Key = "KeyEnd" THEN Len(commits) - 1
            ELSE a.CurIdx
        low == IF moved < 0 THEN 0 ELSE moved
        valid == IF low >= Len(commits) THEN Len(commits) - 1 ELSE low
    IN  IF CommitAreaHandles(ev) THEN [a EXCEPT !.CurIdx = valid] ELSE a

\* CommitAreaTop scrolling down one row short
CommitAreaTopShort(a) ==
    IF a.TopIdx > a.CurIdx THEN a.CurIdx
    ELSE IF a.TopIdx + a.Bound.Size.L <= a.CurIdx THEN a.CurIdx - a.Bound.Size.L
    ELSE a.TopIdx

\* CommitAreaTop centring the selection whenever it moved
CommitAreaTopCentred(a) ==
    LET top == a.CurIdx - (a.Bound.Size.L \div 2)
    IN  IF top < 0 THEN 0 ELSE top

\* CommitArea.Draw, lines 167-171: the top index that keeps CurIdx in view
CommitAreaTop(a) ==
    IF a.TopIdx > a.CurIdx THEN a.CurIdx
    ELSE IF a.TopIdx + a.Bound.Size.L <= a.CurIdx THEN a.CurIdx - a.Bound.Size.L + 1
    ELSE a.TopIdx

\* CommitArea.Draw, lines 193-196: the rest of the current line, filled
CommitFill(a, l, o, c) ==
    [k \in 1..(IF o < a.Bound.Size.O THEN a.Bound.Size.O - o ELSE 0) |->
        SetCell(a.Bound.Min.O + o + k - 1, a.Bound.Min.L + l, " ", c.Fg, c.Bg)]

\* CommitArea.Draw, lines 189-207: the cells of one title
RECURSIVE CommitDrawLine(_, _, _, _, _, _)
CommitDrawLine(remain, o, a, l, c, current) ==
    IF Len(remain) = 0 THEN (IF current THEN CommitFill(a, l, o, c) ELSE <<>>)
    ELSE IF o >= a.Bound.Size.O THEN <<>>
    ELSE <<SetCell(a.Bound.Min.O + o, a.Bound.Min.L + l, Head(remain), c.Fg, c.Bg)>>
         \o CommitDrawLine(Tail(remain), o + RuneWidth(Head(remain)), a, l, c, current)

\* CommitArea.Draw, lines 173-208: the rows from index i (0-based) to bottom
RECURSIVE CommitDrawRows(_, _, _, _)
CommitDrawRows(a, commits, i, bottom) ==
    IF i >= bottom \/ i = Len(commits) THEN <<>>
    ELSE LET c == IF i = a.CurIdx THEN Color(ColorWhite, ColorGreen)
                  ELSE Color(ColorWhite, ColorBlack)
         IN  CommitDrawLine(commits[i + 1].Title, 0, a, i - a.TopIdx, c, i = a.CurIdx)
             \o CommitDrawRows(a, commits, i + 1, bottom)

\* CommitArea.Draw: the area after the draw, and the cells it sets
CommitAreaDraw(a, commits) ==
    LET b == [a EXCEPT !.TopIdx = CommitAreaTop(a)]
    IN  [area |-> b,
         cells |-> CommitDrawRows(b, commits, b.TopIdx, b.TopIdx + b.Bound.Size.L)]

\* CommitArea.Commit: the currently selected commit
CurrentCommit(a, commits) == commits[a.CurIdx + 1]

----------------------------------------------------------------------------
(* DiffArea *)

\* DiffArea.Handle: whether the event is one the area handles
DiffAreaHandles(ev) ==
    \/ ev.Key \in {"KeyPgdn", "KeySpace", "KeyPgup", "KeyArrowUp", "KeyArrowDown",
                   "KeyArrowLeft", "KeyArrowRight"}
    \/ ev.Ch \in {"f", ",", "b", "m", "d", "o", "u", "i", "k", "j", "l"}

\* DiffArea.Handle, lines 246 and 249: the columns of one move left or right
ScrollStep == 4

\* DiffArea.Handle: the area after the event
DiffAreaHandle(a, ev) ==
    LET w == a.Win
        moved ==
            IF ev.Key \in {"KeyPgdn", "KeySpace"} \/ ev.Ch \in {"f", ","} THEN PageForward(w)
            ELSE IF ev.Key = "KeyPgup" \/ ev.Ch \in {"b", "m"} THEN PageBackward(w)
            ELSE IF ev.Ch \in {"d", "o"} THEN HalfPageForward(w)
            ELSE IF ev.Ch = "u" THEN HalfPageBackward(w)
            ELSE IF ev.Key = "KeyArrowUp" \/ ev.Ch = "i" THEN MoveUp(w, 1)
            ELSE IF ev.Key = "KeyArrowDown" \/ ev.Ch = "k" THEN MoveDown(w, 1)
            ELSE IF ev.Key = "KeyArrowLeft" \/ ev.Ch = "j" THEN MoveLeft(w, ScrollStep)
            ELSE IF ev.Key = "KeyArrowRight" \/ ev.Ch = "l" THEN MoveRight(w, ScrollStep)
            ELSE w
    IN  [a EXCEPT !.Win = moved]

\* DiffNeedsFetch fetching on every draw
DiffNeedsFetchAlways(a, hash) == TRUE

\* DiffArea.Draw, line 258: whether the draw calls commitDiff
DiffNeedsFetch(a, hash) == hash # a.CommitHash

\* DiffArea.Draw, lines 258-262: the area once the text of `hash` is loaded;
\* `text` is what commitDiff(hash) returns when it is called
DiffAreaLoad(a, hash, text) ==
    IF DiffNeedsFetch(a, hash)
    THEN [a EXCEPT !.CommitHash = hash, !.Text = text, !.Win = Reset(a.Win, text)]
    ELSE a

\* DiffArea.Draw, line 263
DiffMinL(a) == a.Win.Bound.Min.L

\* DiffArea.Draw, lines 264-267
DiffMaxL(a) ==
    LET maxL == a.Win.Bound.Min.L + a.Win.Bound.Size.L
    IN  IF maxL > Len(a.Text) THEN Len(a.Text) ELSE maxL

\* DiffArea.Draw, line 268: a.Text[minL:maxL] is a slice Go accepts
DiffSliceOk(a) == 0 <= DiffMinL(a) /\ DiffMinL(a) <= DiffMaxL(a)

\* DiffArea.Draw, lines 269-277: the color of a line
DiffColor(ln) ==
    IF Len(ln) # 0 /\ ln[1] = "+" THEN Color(ColorGreen, ColorBlack)
    ELSE IF Len(ln) # 0 /\ ln[1] = "-" THEN Color(ColorRed, ColorBlack)
    ELSE Color(ColorWhite, ColorBlack)

RECURSIVE DiffDrawLine(_, _, _, _, _)
\* DiffDrawLine stopping one column past the right edge
DiffDrawLinePastEdge(remain, o, a, l, c) ==
    IF Len(remain) = 0 THEN <<>>
    ELSE IF o > a.Bound.Size.O THEN <<>>
    ELSE (IF o >= 0
          THEN <<SetCell(a.Bound.Min.O + o, a.Bound.Min.L + l, Head(remain), c.Fg, c.Bg)>>
          ELSE <<>>)
         \o DiffDrawLine(Tail(remain), o + RuneWidth(Head(remain)), a, l, c)

\* DiffDrawLine setting a cell for the runes left of the viewport too
DiffDrawLineNoLeftClip(remain, o, a, l, c) ==
    IF Len(remain) = 0 THEN <<>>
    ELSE IF o >= a.Bound.Size.O THEN <<>>
    ELSE <<SetCell(a.Bound.Min.O + o, a.Bound.Min.L + l, Head(remain), c.Fg, c.Bg)>>
         \o DiffDrawLine(Tail(remain), o + RuneWidth(Head(remain)), a, l, c)

\* DiffArea.Draw, lines 283-296: the cells of one line, from relative offset o
DiffDrawLine(remain, o, a, l, c) ==
    IF Len(remain) = 0 THEN <<>>
    ELSE IF o >= a.Bound.Size.O THEN <<>>
    ELSE (IF o >= 0
          THEN <<SetCell(a.Bound.Min.O + o, a.Bound.Min.L + l, Head(remain), c.Fg, c.Bg)>>
          ELSE <<>>)
         \o DiffDrawLine(Tail(remain), o + RuneWidth(Head(remain)), a, l, c)

\* DiffArea.Draw, lines 283-296: how many runes of one line the loop decodes
\* (utf8.DecodeRune, line 290), from relative offset o
RECURSIVE DiffDecoded(_, _, _)
DiffDecoded(remain, o, a) ==
    IF Len(remain) = 0 THEN 0
    ELSE IF o >= a.Bound.Size.O THEN 0
    ELSE 1 + DiffDecoded(Tail(remain), o + RuneWidth(Head(remain)), a)

\* DiffArea.Draw, lines 268-297: the lines of a.Text[minL:maxL] from the l-th on
RECURSIVE DiffDrawRows(_, _)
DiffDrawRows(a, l) ==
    IF DiffMinL(a) + l >= DiffMaxL(a) THEN <<>>
    ELSE LET ln == a.Text[DiffMinL(a) + l + 1]
         IN  DiffDrawLine(ln, -a.Win.Bound.Min.O, a, l, DiffColor(ln))
             \o DiffDrawRows(a, l + 1)

\* DiffArea.Draw after the text is loaded: the cells it sets
DiffAreaDraw(a) == DiffDrawRows(a, 0)

----------------------------------------------------------------------------
(* The find engine *)

\* nextIdx starting the search at the selection itself
nextIdxSame(commits, i) == i

\* nextIdx
nextIdx(commits, i) == IF i = Len(commits) - 1 THEN 0 ELSE i + 1

\* strings.Contains
Contains(s, substr) ==
    \E k \in 0..(Len(s) - Len(substr)) : SubSeq(s, k + 1, k + Len(substr)) = substr

\* one range loop of findByHash over the indices lo..hi-1: the first match, or -1
RECURSIVE ScanHash(_, _, _, _)
ScanHash(commits, hash, lo, hi) ==
    IF lo >= hi THEN -1
    ELSE IF commits[lo + 1].Hash = hash THEN lo
    ELSE ScanHash(commits, hash, lo + 1, hi)

\* findByHash
findByHash(commits, hash, from) ==
    LET first == ScanHash(commits, hash, from, Len(commits))
    IN  IF first # -1 THEN first ELSE ScanHash(commits, hash, 0, from)

\* one range loop of findByWord over the indices lo..hi-1: the first match, or -1
RECURSIVE ScanWord(_, _, _, _)
ScanWord(commits, word, lo, hi) ==
    IF lo >= hi THEN -1
    ELSE IF Contains(commits[lo + 1].Title, word) THEN lo
    ELSE ScanWord(commits, word, lo + 1, hi)

\* findByWord
findByWord(commits, word, from) ==
    LET first == ScanWord(commits, word, from, Len(commits))
    IN  IF first # -1 THEN first ELSE ScanWord(commits, word, 0, from)

----------------------------------------------------------------------------
(* Event handlers.  A program state st is [dig |-> ..., screen |-> ...]. *)

\* FindConfirm with the two searches applied in the other order
FindConfirmHashLast(commits, word, cur) ==
    LET from == nextIdx(commits, cur)
        byHash == findByHash(commits, word, from)
        byWord == findByWord(commits, word, from)
        afterWord == IF byWord # -1 THEN byWord ELSE cur
    IN  IF byHash # -1 THEN byHash ELSE afterWord

\* handleFind, case KeyEnter: the selection after the find is confirmed
FindConfirm(commits, word, cur) ==
    LET from == nextIdx(commits, cur)
        byHash == findByHash(commits, word, from)
        byWord == findByWord(commits, word, from)
        afterHash == IF byHash # -1 THEN byHash ELSE cur
    IN  IF byWord # -1 THEN byWord ELSE afterHash

\* handleFind with Backspace deleting the first rune of the find string
handleFindDeleteFirst(st, ev) ==
    IF ev.Key \in {"KeyEsc", "KeyCtrlQ", "KeyCtrlK"}
    THEN [st EXCEPT !.dig.FindString = nil, !.dig.Mode = NormalMode]
    ELSE IF ev.Key = "KeyEnter"
    THEN [st EXCEPT !.screen.Commit.CurIdx =
                        FindConfirm(st.dig.Commits, st.dig.FindString, @)]
    ELSE IF ev.Key \in {"KeyBackspace", "KeyBackspace2"}
    THEN [st EXCEPT !.dig.FindString = IF Len(@) = 0 THEN @ ELSE Tail(@)]
    ELSE [st EXCEPT !.dig.FindString = Append(@, ev.Ch)]

\* handleFind leaving the find string as typed when the find is cancelled
handleFindKeepString(st, ev) ==
    IF ev.Key \in {"KeyEsc", "KeyCtrlQ", "KeyCtrlK"}
    THEN [st EXCEPT !.dig.Mode = NormalMode]
    ELSE IF ev.Key = "KeyEnter"
    THEN [st EXCEPT !.screen.Commit.CurIdx =
                        FindConfirm(st.dig.Commits, st.dig.FindString, @)]
    ELSE IF ev.Key \in {"KeyBackspace", "KeyBackspace2"}
    THEN [st EXCEPT !.dig.FindString = IF Len(@) = 0 THEN @ ELSE SubSeq(@, 1, Len(@) - 1)]
    ELSE [st EXCEPT !.dig.FindString = Append(@, ev.Ch)]

\* handleFind leaving FindMode once the find is confirmed
handleFindEnterLeaves(st, ev) ==
    IF ev.Key \in {"KeyEsc", "KeyCtrlQ", "KeyCtrlK"}
    THEN [st EXCEPT !.dig.FindString = nil, !.dig.Mode = NormalMode]
    ELSE IF ev.Key = "KeyEnter"
    THEN [st EXCEPT !.screen.Commit.CurIdx =
                        FindConfirm(st.dig.Commits, st.dig.FindString, @),
                    !.dig.Mode = NormalMode]
    ELSE IF ev.Key \in {"KeyBackspace", "KeyBackspace2"}
    THEN [st EXCEPT !.dig.FindString = IF Len(@) = 0 THEN @ ELSE SubSeq(@, 1, Len(@) - 1)]
    ELSE [st EXCEPT !.dig.FindString = Append(@, ev.Ch)]

\* handleFind
handleFind(st, ev) ==
    IF ev.Key \in {"KeyEsc", "KeyCtrlQ", "KeyCtrlK"}
    THEN [st EXCEPT !.dig.FindString = nil, !.dig.Mode = NormalMode]
    ELSE IF ev.Key = "KeyEnter"
    THEN [st EXCEPT !.screen.Commit.CurIdx =
                        FindConfirm(st.dig.Commits, st.dig.FindString, @)]
    ELSE IF ev.Key \in {"KeyBackspace", "KeyBackspace2"}
    THEN [st EXCEPT !.dig.FindString =
                        IF Len(@) = 0 THEN @ ELSE SubSeq(@, 1, Len(@) - 1)]
    ELSE [st EXCEPT !.dig.FindString = Append(@, ev.Ch)]

\* handleNormalGlobal: whether the event is a global one
handleNormalGlobalOk(ev) ==
    \/ ev.Key \in {"KeyEnter", "KeyTab", "KeyEsc", "KeyCtrlF"}
    \/ ev.Ch \in {".", "<", ">"}

\* handleNormalGlobal: the state after the event
handleNormalGlobal(st, ev) ==
    IF ev.Key \in {"KeyEnter", "KeyTab"} \/ ev.Ch = "."
    THEN [st EXCEPT !.dig.CurView = IF @ = CommitView THEN DiffView ELSE CommitView]
    ELSE IF ev.Key = "KeyEsc" THEN [st EXCEPT !.dig.CurView = CommitView]
    ELSE IF ev.Key = "KeyCtrlF" THEN [st EXCEPT !.dig.Mode = FindMode]
    ELSE IF ev.Ch = "<" THEN [st EXCEPT !.screen = ExpandSide(@, -1)]
    ELSE IF ev.Ch = ">" THEN [st EXCEPT !.screen = ExpandSide(@, 1)]
    ELSE st

\* handleNormal handing every event to the commit area
handleNormalToList(st, ev) ==
    IF handleNormalGlobalOk(ev) THEN handleNormalGlobal(st, ev)
    ELSE [st EXCEPT !.screen.Commit = CommitAreaHandle(@, st.dig.Commits, ev)]

\* handleNormal
handleNormal(st, ev) ==
    IF handleNormalGlobalOk(ev) THEN handleNormalGlobal(st, ev)
    ELSE IF st.dig.CurView = CommitView
    THEN [st EXCEPT !.screen.Commit = CommitAreaHandle(@, st.dig.Commits, ev)]
    ELSE IF st.dig.CurView = DiffView
    THEN [st EXCEPT !.screen.Diff = DiffAreaHandle(@, ev)]
    ELSE st

\* main, line 786: the quit keys of NormalMode
IsQuit(ev) == ev.Key = "KeyCtrlQ" \/ ev.Ch = "q"

\* main, lines 782-802: case termbox.EventKey, the quit keys aside
handleKey(st, ev) ==
    IF st.dig.Mode = NormalMode THEN handleNormal(st, ev)
    ELSE IF st.dig.Mode = FindMode THEN handleFind(st, ev)
    ELSE st

----------------------------------------------------------------------------
(* The environment: repositories, terminal sizes, saved settings *)

\* the repositories dig is run on: what `git log` lists (allCommits, in display
\* order) and what `git show` prints for each hash, split at "\n" (commitDiff)
Repos ==
    {[Dir |-> <<"r", "4">>,
      Commits |-> <<Commit(<<"h", "0">>, <<"x", "a">>),
                    Commit(<<"a">>, <<"n", "o">>),
                    Commit(<<"h", "2">>, <<"a", "W">>),
                    Commit(<<"a", "a">>, <<"z">>)>>,
      Show |-> << << <<"+", "a", "b">>, <<"-", "W">>, <<>> >>,
                  << <<>> >>,
                  << <<" ", "a", "W", "b", "c">>, <<>> >>,
                  << <<"-", "a">>, <<>> >> >>],
     [Dir |-> <<"r", "1">>,
      Commits |-> <<Commit(<<"a">>, <<"a">>)>>,
      Show |-> << << <<"+">>, <<>> >> >>]}

\* the repository at dir
Repo(dir) == CHOOSE r \in Repos : r.Dir = dir

\* commitDiff: what it can return for a hash of the repository at dir: the
\* lines of `git show`, or nil with an error
commitDiff(dir, hash) ==
    {Repo(dir).Show[i] : i \in {j \in 1..Len(Repo(dir).Commits) :
                                    Repo(dir).Commits[j].Hash = hash}}
    \cup {nil}

\* termbox.Size(): the terminal sizes, as Pt{h, w}; a terminal has at least
\* one row, and may be narrower than the side width
TermSizes == {Pt(1, 3), Pt(2, 0), Pt(3, 1), Pt(4, 2)}

\* readSideWidth: the side widths dig starts with, whatever integer
\* strconv.Atoi reads in the side width file, a negative one included
SideWidths == (-1)..MaxSide

----------------------------------------------------------------------------
(* The last-commit file *)

\* the file is the sequence of its lines, each ended by "\n"; the empty
\* string strings.Split leaves after the last "\n" is skipped by both readers
\* (it has no `"` prefix).  The file system calls succeed.

\* the double quote
Quote == "\""

\* the retention count of saveLastCommit: 1000 in line 608, here a count that
\* the files of the model overflow
MaxViews == 3

\* strings.Index(str, ch): the index of the first ch in str, from 0, or -1
Index(str, ch) ==
    IF \E i \in 1..Len(str) : str[i] = ch
    THEN (CHOOSE i \in 1..Len(str) :
              str[i] = ch /\ \A j \in 1..(i - 1) : str[j] # ch) - 1
    ELSE -1

\* the white space strings.TrimSpace removes
WhiteSpace == {" ", "\t", "\r"}

\* strings.TrimSpace
TrimSpace(str) ==
    LET inked == {i \in 1..Len(str) : str[i] \notin WhiteSpace}
    IN  IF inked = {} THEN <<>>
        ELSE SubSeq(str, CHOOSE i \in inked : \A j \in inked : i <= j,
                         CHOOSE i \in inked : \A j \in inked : i >= j)

\* saveLastCommit, line 600, and readLastCommit, line 650: the hash holds a
\* space or a tab
HashInvalid(hash) == \E i \in 1..Len(hash) : hash[i] \in {" ", "\t"}

\* saveLastCommit, lines 590-599, and readLastCommit, lines 640-649: the view
\* a line holds, if it holds one
ParseView(ln) ==
    IF Len(ln) = 0 \/ Head(ln) # Quote THEN [ok |-> FALSE]
    ELSE LET rest == Tail(ln)
             idx == Index(rest, Quote)
         IN  IF idx = -1 THEN [ok |-> FALSE]
             ELSE [ok |-> TRUE,
                   repo |-> SubSeq(rest, 1, idx),
                   hash |-> TrimSpace(SubSeq(rest, idx + 2, Len(rest)))]

\* saveLastCommit, lines 589-604: the views of the lines from the i-th on that
\* are kept
RECURSIVE KeptViews(_, _, _)
KeptViews(content, i, repoDir) ==
    IF i > Len(content) THEN <<>>
    ELSE LET v == ParseView(content[i])
         IN  (IF v.ok /\ v.repo # repoDir /\ ~HashInvalid(v.hash)
              THEN <<[repo |-> v.repo, hash |-> v.hash]>>
              ELSE <<>>)
             \o KeptViews(content, i + 1, repoDir)

\* SaveViews with the saved repository's earlier lines kept
SaveViewsKeepOwn(content, repoDir, hash) ==
    LET views == <<[repo |-> repoDir, hash |-> hash]>> \o KeptViews(content, 1, <<Quote>>)
    IN  IF Len(views) > MaxViews THEN SubSeq(views, 1, MaxViews) ELSE views

\* saveLastCommit, lines 588-610: the views that are written
SaveViews(content, repoDir, hash) ==
    LET views == <<[repo |-> repoDir, hash |-> hash]>> \o KeptViews(content, 1, repoDir)
    IN  IF Len(views) > MaxViews THEN SubSeq(views, 1, MaxViews) ELSE views

\* saveLastCommit, line 613: fmt.Sprintf("\"%s\" %s\n", v.repo, v.hash)
FormatView(v) == <<Quote>> \o v.repo \o <<Quote, " ">> \o v.hash

\* saveLastCommit: the file after the call
saveLastCommit(content, repoDir, hash) ==
    LET views == SaveViews(content, repoDir, hash)
    IN  [i \in 1..Len(views) |-> FormatView(views[i])]

\* readLastCommit, lines 639-655: the result from the i-th line on
RECURSIVE ReadFrom(_, _, _)
ReadFrom(content, i, repoDir) ==
    IF i > Len(content) THEN [hash |-> <<>>, err |-> FALSE]
    ELSE LET v == ParseView(content[i])
         IN  IF ~v.ok \/ v.repo # repoDir THEN ReadFrom(content, i + 1, repoDir)
             ELSE IF HashInvalid(v.hash) THEN [hash |-> <<>>, err |-> TRUE]
             ELSE [hash |-> v.hash, err |-> FALSE]

\* readLastCommit
readLastCommit(content, repoDir) == ReadFrom(content, 1, repoDir)

----------------------------------------------------------------------------
(* main *)

\* the program state the handlers work on
State == [dig |-> dig, screen |-> screen]

\* main, lines 748-766: the state when the loop is entered, the terminal cleared
Init ==
    \E r \in Repos, size \in TermSizes, sideWidth \in SideWidths :
        \E curIdx \in 0..(Len(r.Commits) - 1) :
            /\ screen = [NewScreen(size, sideWidth) EXCEPT !.Commit.CurIdx = curIdx]
            /\ dig = [Mode |-> NormalMode, CurView |-> CommitView, RepoDir |-> r.Dir,
                      Commits |-> r.Commits, FindString |-> nil]
            /\ pc = "draw"
            /\ cells = <<>>
            /\ fetches = 0
            /\ events = <<>>
            /\ conf = <<>>

\* Screen.Draw with CommitView current, then termbox.Flush
DrawCommit ==
    /\ pc = "draw"
    /\ dig.CurView = CommitView
    /\ LET d == CommitAreaDraw(screen.Commit, dig.Commits)
       IN  /\ screen' = [screen EXCEPT !.Commit = d.area]
           /\ cells' = d.cells
    /\ pc' = "poll"
    /\ UNCHANGED <<dig, fetches, events, conf>>

\* Screen.Draw with DiffView current, then termbox.Flush; the slice of line 268
\* panics when its bounds are out of range
DrawDiff ==
    /\ pc = "draw"
    /\ dig.CurView # CommitView
    /\ LET hash == CurrentCommit(screen.Commit, dig.Commits).Hash
           call == DiffNeedsFetch(screen.Diff, hash)
       IN  \E text \in (IF call THEN commitDiff(dig.RepoDir, hash) ELSE {nil}) :
               LET a == DiffAreaLoad(screen.Diff, hash, text)
               IN  /\ screen' = [screen EXCEPT !.Diff = a]
                   /\ fetches' = IF call THEN 1 ELSE 0
                   /\ IF DiffSliceOk(a)
                      THEN cells' = DiffAreaDraw(a) /\ pc' = "poll"
                      ELSE cells' = <<>> /\ pc' = "panic"
    /\ UNCHANGED <<dig, events, conf>>

\* the events a key press sends in the current mode
KeyEvents ==
    {KeyEvent(k) : k \in Keys}
    \cup {ChEvent(c) : c \in (IF dig.Mode = NormalMode THEN NormalChars ELSE FindChars)}

\* the model's bounds on the counters the code leaves unbounded: a handler
\* does not raise one past its bound
WithinBounds(old, new) ==
    /\ new.screen.SideWidth <= MaxSide \/ new.screen.SideWidth <= old.screen.SideWidth
    /\ \/ new.screen.Diff.Win.Bound.Min.O <= MaxCol
       \/ new.screen.Diff.Win.Bound.Min.O <= old.screen.Diff.Win.Bound.Min.O
    /\ \/ Len(new.dig.FindString) <= MaxFind
       \/ Len(new.dig.FindString) <= Len(old.dig.FindString)

\* main, lines 782-802: the key event ev, not a quit, handled; then the
\* termbox.Clear of the next iteration
HandleKeyEvent(ev) ==
    /\ pc = "poll"
    /\ ~(dig.Mode = NormalMode /\ IsQuit(ev))
    /\ LET st == handleKey(State, ev)
       IN  /\ WithinBounds(State, st)
           /\ dig' = st.dig
           /\ screen' = st.screen
    /\ pc' = "draw"
    /\ cells' = <<>>
    /\ fetches' = 0
    /\ UNCHANGED conf

\* main, lines 786-796: a quit key in NormalMode: the current commit is saved
\* and main returns
HandleQuit ==
    /\ pc = "poll"
    /\ dig.Mode = NormalMode
    /\ conf' = saveLastCommit(conf, dig.RepoDir,
                              CurrentCommit(screen.Commit, dig.Commits).Hash)
    /\ pc' = "exit"
    /\ UNCHANGED <<dig, screen, cells, fetches>>

\* main, lines 803-810: a resize event handled; then the termbox.Clear of the
\* next iteration
HandleResize ==
    /\ pc = "poll"
    /\ \E size \in TermSizes : screen' = Resize(screen, size)
    /\ pc' = "draw"
    /\ cells' = <<>>
    /\ fetches' = 0
    /\ UNCHANGED <<dig, conf>>

\* main, lines 780-781: an event of another type (mouse, interrupt, error)
HandleOther ==
    /\ pc = "poll"
    /\ pc' = "draw"
    /\ cells' = <<>>
    /\ fetches' = 0
    /\ UNCHANGED <<dig, screen, conf>>

\* main, lines 771 and 780-802: the key event ev polled, sent and received at
\* once, and handled
PollKeyOf(ev) == HandleKeyEvent(ev) /\ UNCHANGED events

\* main, lines 780-802: a key event
PollKey == \E ev \in KeyEvents : PollKeyOf(ev)

\* main, lines 786-796: quit in NormalMode
PollQuit ==
    /\ \E ev \in KeyEvents : IsQuit(ev)
    /\ HandleQuit
    /\ UNCHANGED events

\* main, lines 803-810: a resize event
PollResize == HandleResize /\ UNCHANGED events

\* main, lines 780-781: an event of another type
PollOther == HandleOther /\ UNCHANGED events

Next == DrawCommit \/ DrawDiff \/ PollKey \/ PollQuit \/ PollResize \/ PollOther

Spec == Init /\ [][Next]_vars

----------------------------------------------------------------------------
(* The find engine on its own: dig in FindMode with a find string typed,   *)
(* the list drawn, and Enter pressed again and again.                      *)

\* longest find string of the find checks
MaxWord == 3

\* the characters of the find checks' find strings
WordChars == {"a", "b", "c"}

\* the find strings of the find checks
Words == UNION {[1..k -> WordChars] : k \in 0..MaxWord}

\* the commit lists of the find checks: the one of Repos, and one with the
\* titles "xabc", "no", "abcx", "zz"
ExampleCommits ==
    <<Commit(<<"h", "0">>, <<"x", "a", "b", "c">>),
      Commit(<<"h", "1">>, <<"n", "o">>),
      Commit(<<"h", "2">>, <<"a", "b", "c", "x">>),
      Commit(<<"h", "3">>, <<"z", "z">>)>>

FindRepos ==
    {[Dir |-> <<"r", "4">>, Commits |-> Repo(<<"r", "4">>).Commits],
     [Dir |-> <<"e", "x">>, Commits |-> ExampleCommits]}

InitFind ==
    \E r \in FindRepos, word \in Words :
        \E curIdx \in 0..(Len(r.Commits) - 1) :
            LET s == [NewScreen(Pt(2, 3), 0) EXCEPT !.Commit.CurIdx = curIdx]
                d == CommitAreaDraw(s.Commit, r.Commits)
            IN  /\ screen = [s EXCEPT !.Commit = d.area]
                /\ dig = [Mode |-> FindMode, CurView |-> CommitView, RepoDir |-> r.Dir,
                          Commits |-> r.Commits, FindString |-> word]
                /\ pc = "poll"
                /\ cells = d.cells
                /\ fetches = 0
                /\ events = <<>>
                /\ conf = <<>>

\* handleFind's case KeyEnter, from main
Confirm == PollKeyOf(KeyEvent("KeyEnter"))

NextFind == Confirm \/ DrawCommit

SpecFind == InitFind /\ [][NextFind]_vars

----------------------------------------------------------------------------
(* Drawing on its own: a two-commit list whose titles and whose diff text  *)
(* are one line, drawn once in either view.                                *)

\* longest line that is drawn
MaxLine == 5
\* widest terminal of the drawing checks
MaxWidth == 4

\* the runes of the lines that are drawn
LineRunes == {"a", "b"} \cup WideRunes

\* the lines that are drawn
Lines == UNION {[1..k -> LineRunes] : k \in 0..MaxLine}

\* the scroll columns DiffArea.Handle reaches from column 0
ScrollCols == {c \in 0..MaxCol : c % ScrollStep = 0}

InitRender ==
    \E line \in Lines, width \in 0..MaxWidth, sideWidth \in {0, 1}, col \in ScrollCols :
        \E view \in {CommitView, DiffView}, curIdx \in {0, 1} :
            LET commits == <<Commit(<<"h", "0">>, line), Commit(<<"h", "1">>, line)>>
                text == <<line, <<>> >>
                s == NewScreen(Pt(3, width), sideWidth)
            IN  /\ screen = [s EXCEPT
                        !.Commit.CurIdx = curIdx,
                        !.Diff.CommitHash = commits[curIdx + 1].Hash,
                        !.Diff.Text = text,
                        !.Diff.Win = IF view = DiffView
                                     THEN MoveRight(Reset(@, text), col)
                                     ELSE Reset(@, text)]
                /\ dig = [Mode |-> NormalMode, CurView |-> view, RepoDir |-> <<"l">>,
                          Commits |-> commits, FindString |-> nil]
                /\ pc = "draw"
                /\ cells = <<>>
                /\ fetches = 0
                /\ events = <<>>
                /\ conf = <<>>

NextRender == DrawCommit \/ DrawDiff

SpecRender == InitRender /\ [][NextRender]_vars

----------------------------------------------------------------------------
(* The modes on their own: dig on a repository of one commit, with the quit *)
(* character among the characters typed in FindMode.                       *)

\* the characters typed into the find string
ModeChars == {"a", "q"}

\* the events a key press sends in the current mode
ModeEvents ==
    {KeyEvent(k) : k \in Keys}
    \cup {ChEvent(c) : c \in (IF dig.Mode = NormalMode THEN NormalChars ELSE ModeChars)}

InitMode ==
    \E size \in TermSizes :
        /\ screen = NewScreen(size, 0)
        /\ dig = [Mode |-> NormalMode, CurView |-> CommitView, RepoDir |-> <<"r", "1">>,
                  Commits |-> Repo(<<"r", "1">>).Commits, FindString |-> nil]
        /\ pc = "draw"
        /\ cells = <<>>
        /\ fetches = 0
        /\ events = <<>>
        /\ conf = <<>>

\* main, lines 780-802: a key event
PollKeyMode == \E ev \in ModeEvents : PollKeyOf(ev)

NextMode == DrawCommit \/ DrawDiff \/ PollKeyMode \/ PollQuit \/ PollResize

SpecMode == InitMode /\ [][NextMode]_vars

----------------------------------------------------------------------------
(* The event loop and the polling goroutine, each at its own pace.         *)

\* the capacity of the channel `events`: 20 in line 768, here a capacity that
\* the model's goroutine fills
MaxQueue == 2

\* termbox.Event{Type: EventResize}, and an event of a type main ignores
ResizeEvent == [Type |-> "EventResize", Key |-> NoKey, Ch |-> NUL]
MouseEvent == [Type |-> "EventMouse", Key |-> NoKey, Ch |-> NUL]

\* what termbox.PollEvent returns
LoopEvents ==
    {KeyEvent("KeyArrowDown"), KeyEvent("KeyEnter"), ChEvent("q"), ResizeEvent, MouseEvent}

\* main, line 771: events <- ev
Send(queue, ev) == Append(queue, ev)

\* a receive that takes the event sent last
RecvNewest(queue) ==
    [ev |-> queue[Len(queue)], rest |-> SubSeq(queue, 1, Len(queue) - 1)]

\* main, line 780: ev := <-events
Recv(queue) == [ev |-> Head(queue), rest |-> Tail(queue)]

InitLoop ==
    /\ screen = NewScreen(Pt(3, 1), 0)
    /\ dig = [Mode |-> NormalMode, CurView |-> CommitView, RepoDir |-> <<"r", "4">>,
              Commits |-> Repo(<<"r", "4">>).Commits, FindString |-> nil]
    /\ pc = "draw"
    /\ cells = <<>>
    /\ fetches = 0
    /\ events = <<>>
    /\ conf = <<>>

\* main, lines 769-773: the goroutine polls an event and sends it; the send
\* waits while the channel is full
Produce ==
    /\ pc \in {"draw", "poll"}
    /\ Len(events) < MaxQueue
    /\ \E ev \in LoopEvents : events' = Send(events, ev)
    /\ UNCHANGED <<dig, screen, pc, cells, fetches, conf>>

\* main, lines 781-811: the switch on the event received
Dispatch(ev) ==
    IF ev.Type = "EventKey"
    THEN IF dig.Mode = NormalMode /\ IsQuit(ev) THEN HandleQuit ELSE HandleKeyEvent(ev)
    ELSE IF ev.Type = "EventResize" THEN HandleResize
    ELSE HandleOther

\* main, lines 780-811: the loop receives an event, waiting while the channel
\* is empty, and handles it
Receive ==
    /\ pc = "poll"
    /\ Len(events) > 0
    /\ events' = Recv(events).rest
    /\ Dispatch(Recv(events).ev)

NextLoop == DrawCommit \/ DrawDiff \/ Produce \/ Receive

SpecLoop == InitLoop /\ [][NextLoop]_vars

----------------------------------------------------------------------------
(* The last-commit file over runs of dig: dig started on a repository, a   *)
(* commit selected, dig quit, and dig started again on any repository.     *)

\* most lines of a last-commit file that dig finds when it is first run
MaxConfLines == 3

\* the absolute paths dig is run on; a directory name may hold a double quote
SavePaths == {<<"p">>, <<"r">>, <<"s">>, <<"t">>, <<"p", Quote>>}

\* allCommits: the commits of each of those repositories
SaveCommits == <<Commit(<<"h">>, <<"x">>), Commit(<<"g">>, <<"y">>)>>

\* the lines of the files dig finds: the lines saveLastCommit writes, a line
\* of another format, a line whose quote is not closed, a line with more
\* white space, a line whose hash holds a tab, a line without a hash
ConfLines ==
    {FormatView([repo |-> path, hash |-> <<"h">>]) : path \in SavePaths}
    \cup {<<"x">>,
          <<Quote, "r">>,
          <<Quote, "r", Quote, " ", " ", "g", " ">>,
          <<Quote, "s", Quote, " ", "h", "\t", "g">>,
          <<Quote, "t", Quote>>}

\* the files dig finds
Confs == UNION {[1..k -> ConfLines] : k \in 0..MaxConfLines}

\* main, lines 750-757: the index of the commit readLastCommit names, or 0
StartIdx(commits, lastc) ==
    IF \E i \in 1..Len(commits) : commits[i].Hash = lastc
    THEN (CHOOSE i \in 1..Len(commits) :
              /\ commits[i].Hash = lastc
              /\ \A j \in 1..(i - 1) : commits[j].Hash # lastc) - 1
    ELSE 0

\* main, lines 721-766: dig started on the repository at path
StartOn(path) ==
    /\ screen' = [NewScreen(Pt(2, 3), 0) EXCEPT
                      !.Commit.CurIdx = StartIdx(SaveCommits, readLastCommit(conf, path).hash)]
    /\ dig' = [Mode |-> NormalMode, CurView |-> CommitView, RepoDir |-> path,
               Commits |-> SaveCommits, FindString |-> nil]
    /\ pc' = "draw"
    /\ cells' = <<>>
    /\ fetches' = 0
    /\ UNCHANGED <<events, conf>>

InitSave ==
    \E path \in SavePaths, content \in Confs :
        /\ screen = [NewScreen(Pt(2, 3), 0) EXCEPT
                         !.Commit.CurIdx =
                             StartIdx(SaveCommits, readLastCommit(content, path).hash)]
        /\ dig = [Mode |-> NormalMode, CurView |-> CommitView, RepoDir |-> path,
                  Commits |-> SaveCommits, FindString |-> nil]
        /\ pc = "draw"
        /\ cells = <<>>
        /\ fetches = 0
        /\ events = <<>>
        /\ conf = content

\* dig is started again, after the quit
Start == pc = "exit" /\ \E path \in SavePaths : StartOn(path)

\* CommitArea.Handle, from main: another commit is selected
Select == \E k \in {"KeyArrowUp", "KeyArrowDown"} : PollKeyOf(KeyEvent(k))

NextSave == DrawCommit \/ Select \/ PollQuit \/ Start

SpecSave == InitSave /\ [][NextSave]_vars

----------------------------------------------------------------------------
(* Properties *)

\* shorthands for the state the properties read
CurIdx == screen.Commit.CurIdx
TopIdx == screen.Commit.TopIdx
ListHeight == screen.Commit.Bound.Size.L
Win == screen.Diff.Win
SelectedHash == CurrentCommit(screen.Commit, dig.Commits).Hash
Max(x, y) == IF x > y THEN x ELSE y
Min(x, y) == IF x < y THEN x ELSE y

\* C1: List Area invariant.  Once the list is drawn with a viewport height
\* h >= 1, 0 <= TopIdx <= CurIdx <= TopIdx + h - 1, whatever moves, finds,
\* resizes and view switches came before the draw.
C1_ListAreaInvariant ==
    (pc = "poll" /\ dig.CurView = CommitView /\ ListHeight >= 1)
        => /\ 0 <= TopIdx
           /\ TopIdx <= CurIdx
           /\ CurIdx <= TopIdx + ListHeight - 1
           /\ CurIdx < Len(dig.Commits)

\* C1 witness: a list of four drawn two rows high, scrolled to its end
C1_Witness ==
    /\ pc = "poll" /\ dig.CurView = CommitView
    /\ Len(dig.Commits) = 4 /\ ListHeight = 2
    /\ TopIdx = 2 /\ CurIdx = 3

\* C2: Text Window line invariant, as claimed: the scroll origin line lies in
\* [0, max(0, len(text)-1)] for every text body, the empty one included.
C2_WindowLineInvariant ==
    /\ 0 <= Win.Bound.Min.L
    /\ Win.Bound.Min.L <= Max(0, Len(Win.Text) - 1)

\* C3: a failed diff fetch is not terminal for the session, as claimed: with
\* the empty body of a failed fetch loaded, the line range every draw slices
\* out of the body satisfies 0 <= first <= last <= len(body), and no draw
\* panics.
C3_FailedFetchNotTerminal ==
    (screen.Diff.CommitHash # nil /\ Len(screen.Diff.Text) = 0)
        => /\ pc # "panic"
           /\ (pc = "draw" /\ dig.CurView = DiffView
                   /\ ~DiffNeedsFetch(screen.Diff, SelectedHash))
               => /\ 0 <= DiffMinL(screen.Diff)
                  /\ DiffMinL(screen.Diff) <= DiffMaxL(screen.Diff)
                  /\ DiffMaxL(screen.Diff) <= Len(screen.Diff.Text)

\* C4: area rectangles never have a negative size, as claimed: every derived
\* rectangle has height >= 0 and width >= 0.
C4_NoNegativeSize ==
    \A size \in {screen.Commit.Bound.Size, screen.Diff.Bound.Size,
                 Win.Bound.Size, screen.Status.Bound.Size} :
        size.L >= 0 /\ size.O >= 0

\* C6: MoveDown(n) followed by MoveUp(n) returns the scroll line to its value
\* unless a move was clamped: the way down is clamped when line + n passes the
\* last line len(text)-1, the way back when it would pass line 0.
C6_DownUpRoundTrip ==
    \A n \in 0..MaxMove :
        LET line == Win.Bound.Min.L
            down == MoveDown(Win, n)
            up == MoveUp(down, n)
            clampedDown == line + n > Len(Win.Text) - 1
            clampedUp == down.Bound.Min.L - n < 0
        IN  (~clampedDown /\ ~clampedUp) => up.Bound.Min.L = line

\* C6 witness: a three-line text scrolled down by one line, from where
\* MoveDown(1), MoveUp(1) is clamped at neither end
C6_Witness ==
    /\ pc = "poll" /\ dig.CurView = DiffView
    /\ Len(Win.Text) = 3 /\ Win.Bound.Min.L = 1

\* C9: lazy refetch on draw.  A draw of the diff view calls commitDiff exactly
\* when the selected hash differs from the last fetched one, and then holds
\* that hash, the text commitDiff returned and a window reset to (0,0) on that
\* text; a draw with the same hash calls nothing and leaves the diff area, the
\* scroll origin included, as it was.  A draw of the commit view never fetches.
C9_LazyRefetch ==
    [][(pc = "draw")
        => LET a == screen.Diff
               hash == SelectedHash
           IN  /\ dig.CurView = CommitView => fetches' = 0 /\ screen'.Diff = a
               /\ (dig.CurView = DiffView /\ hash # a.CommitHash)
                   => /\ fetches' = 1
                      /\ screen'.Diff.CommitHash = hash
                      /\ screen'.Diff.Text \in commitDiff(dig.RepoDir, hash)
                      /\ screen'.Diff.Win.Text = screen'.Diff.Text
                      /\ screen'.Diff.Win.Bound.Min = Pt(0, 0)
               /\ (dig.CurView = DiffView /\ hash = a.CommitHash)
                   => fetches' = 0 /\ screen'.Diff = a]_vars

\* C9 witness: the diff view drawn again for the hash it holds, without a
\* fetch, the window still scrolled down
C9_Witness ==
    /\ pc = "poll" /\ dig.CurView = DiffView
    /\ fetches = 0
    /\ screen.Diff.CommitHash = SelectedHash
    /\ Win.Bound.Min.L = 2

\* C10: minimal-scroll rule.  A draw of the list with viewport height h sets
\* TopIdx to CurIdx when CurIdx < TopIdx, to CurIdx - h + 1 when
\* CurIdx >= TopIdx + h, and leaves it alone otherwise.
C10_MinimalScroll ==
    [][(pc = "draw" /\ dig.CurView = CommitView)
        => LET top == screen'.Commit.TopIdx
           IN  /\ CurIdx < TopIdx => top = CurIdx
               /\ (CurIdx >= TopIdx /\ CurIdx >= TopIdx + ListHeight)
                   => top = CurIdx - ListHeight + 1
               /\ (CurIdx >= TopIdx /\ CurIdx < TopIdx + ListHeight) => top = TopIdx
               /\ screen'.Commit.CurIdx = CurIdx]_vars

\* C10 witness: a list of four drawn three rows high with the last commit
\* selected: scrolled down by exactly one row, the selection on the last row
C10_Witness ==
    /\ pc = "poll" /\ dig.CurView = CommitView
    /\ Len(dig.Commits) = 4 /\ ListHeight = 3
    /\ TopIdx = 1 /\ CurIdx = 3

\* the indices c+1, ..., n-1, 0, ..., c of a list of n, as a sequence
CircularOrder(n, c) == [k \in 1..n |-> (c + k) % n]

\* the first index of the order that is one of the matches, or -1
FirstInOrder(order, matches) ==
    IF \E k \in 1..Len(order) : order[k] \in matches
    THEN order[CHOOSE k \in 1..Len(order) :
                   order[k] \in matches /\ \A j \in 1..(k - 1) : order[j] \notin matches]
    ELSE -1

\* the first commit after the selection, circularly, whose title contains the
\* find string, or -1
FirstTitleMatch ==
    FirstInOrder(CircularOrder(Len(dig.Commits), CurIdx),
                 {i \in 0..(Len(dig.Commits) - 1) :
                      Contains(dig.Commits[i + 1].Title, dig.FindString)})

\* the first commit after the selection, circularly, whose hash is the find
\* string, or -1
FirstHashMatch ==
    FirstInOrder(CircularOrder(Len(dig.Commits), CurIdx),
                 {i \in 0..(Len(dig.Commits) - 1) :
                      dig.Commits[i + 1].Hash = dig.FindString})

\* C5: find is circular and starts strictly after the selection.  With the
\* selection at c in a list of n, each search of a confirmed find returns the
\* first index in the order c+1, ..., n-1, 0, ..., c whose commit satisfies its
\* predicate, or -1; for the titles "xabc", "no", "abcx", "zz" the word "abc"
\* searched after index 2 is found at index 0.
C5_FindIsCircular ==
    /\ findByWord(dig.Commits, dig.FindString, nextIdx(dig.Commits, CurIdx))
           = FirstTitleMatch
    /\ findByHash(dig.Commits, dig.FindString, nextIdx(dig.Commits, CurIdx))
           = FirstHashMatch
    /\ findByWord(ExampleCommits, <<"a", "b", "c">>, nextIdx(ExampleCommits, 2)) = 0

\* C5 witness: "abc" confirmed with the third of the example titles selected
\* (and drawn on the one-row list): the selection has wrapped to the first
C5_Witness ==
    /\ pc = "draw" /\ dig.Mode = FindMode
    /\ dig.Commits = ExampleCommits /\ dig.FindString = <<"a", "b", "c">>
    /\ TopIdx = 2 /\ CurIdx = 0

\* C8: find resolution on confirm.  The new selection is the title match if
\* there is one, otherwise the hash match if there is one, otherwise the
\* selection is unchanged; both searches start after the same selection.
C8_FindResolution ==
    [][(pc = "poll" /\ dig.Mode = FindMode /\ pc' = "draw")
        => screen'.Commit.CurIdx =
               IF FirstTitleMatch # -1 THEN FirstTitleMatch
               ELSE IF FirstHashMatch # -1 THEN FirstHashMatch
               ELSE CurIdx]_vars

\* C8 witness: "a" confirmed with the first commit of r4 selected (and drawn on
\* the one-row list): the hash "a" of the second commit matches, the title
\* "aW" of the third wins
C8_Witness ==
    /\ pc = "draw" /\ dig.Mode = FindMode
    /\ dig.RepoDir = <<"r", "4">> /\ dig.FindString = <<"a">>
    /\ FirstHashMatch # -1
    /\ TopIdx = 0 /\ CurIdx = 2

\* a line of single-width runes only
SingleWidth(ln) == \A i \in 1..Len(ln) : RuneWidth(ln[i]) = 1

\* the cells of the frame on terminal row y
RowCells(y) == SelectSeq(cells, LAMBDA c : c.y = y)

\* the cells are at pairwise distinct columns of the w columns from column x
DistinctColumns(row, x, w) ==
    /\ \A j \in 1..Len(row) : x <= row[j].x /\ row[j].x < x + w
    /\ \A j, k \in 1..Len(row) : j # k => row[j].x # row[k].x

\* C7: a drawn line of single-width runes.  In a viewport of width w >= 0 the
\* diff view scrolled to column s sets exactly max(0, min(length - s, w)) cells
\* for the line, and the commit view sets exactly min(length, w) cells for a
\* title, which are its first runes in order, each at a distinct column of the
\* viewport; after the title the row of the current commit holds only the
\* spaces that fill it.
C7_SingleWidthCells ==
    (pc = "poll" /\ screen.Commit.Bound.Size.O >= 0)
        => LET w == screen.Commit.Bound.Size.O
               x == screen.Commit.Bound.Min.O
           IN  IF dig.CurView = DiffView
               THEN \A l \in 0..(DiffMaxL(screen.Diff) - DiffMinL(screen.Diff) - 1) :
                        LET ln == screen.Diff.Text[DiffMinL(screen.Diff) + l + 1]
                            row == RowCells(screen.Diff.Bound.Min.L + l)
                            s == Win.Bound.Min.O
                        IN  SingleWidth(ln)
                                => /\ Len(row) = Max(0, Min(Len(ln) - s, w))
                                   /\ DistinctColumns(row, x, w)
                                   /\ \A j \in 1..Len(row) :
                                          row[j].ch = ln[s + j] /\ row[j].x = x + j - 1
               ELSE \A i \in TopIdx..(Min(TopIdx + ListHeight, Len(dig.Commits)) - 1) :
                        LET ln == dig.Commits[i + 1].Title
                            row == RowCells(screen.Commit.Bound.Min.L + i - TopIdx)
                            k == Min(Len(ln), w)
                        IN  SingleWidth(ln)
                                => /\ Len(row) = IF i = CurIdx THEN w ELSE k
                                   /\ DistinctColumns(row, x, w)
                                   /\ \A j \in 1..k :
                                          row[j].ch = ln[j] /\ row[j].x = x + j - 1
                                   /\ \A j \in (k + 1)..Len(row) : row[j].ch = " "

\* C7 witness: the five runes "ababa" drawn in the diff view three columns
\* wide, scrolled to column 4: one cell
C7_Witness ==
    /\ pc = "poll" /\ dig.CurView = DiffView
    /\ screen.Diff.Text[1] = <<"a", "b", "a", "b", "a">>
    /\ Win.Bound.Min.O = 4 /\ screen.Diff.Bound.Size.O = 3
    /\ Len(RowCells(screen.Diff.Bound.Min.L)) = 1

\* C11: derived geometry is never stale.  In every state, so after NewScreen
\* and after every Resize and ExpandSide, the list and the detail rectangle
\* are both origin (0, SideWidth), size (height - 1, width - SideWidth); the
\* window's size is the detail rectangle's size; the status rectangle is the
\* last row, origin (height - 1, 0), size (1, width), and begins where the
\* main rows end.
C11_GeometryNeverStale ==
    LET mainArea == Rect(Pt(0, screen.SideWidth),
                         Pt(screen.size.L - 1, screen.size.O - screen.SideWidth))
    IN  /\ screen.Commit.Bound = mainArea
        /\ screen.Diff.Bound = mainArea
        /\ Win.Bound.Size = screen.Diff.Bound.Size
        /\ screen.Status.Bound = Rect(Pt(screen.size.L - 1, 0), Pt(1, screen.size.O))
        /\ screen.Status.Bound.Min.L
               = screen.Commit.Bound.Min.L + screen.Commit.Bound.Size.L

\* C11 witness: a list three rows high whose top is still the one a draw two
\* rows high left (a draw three rows high cannot move the top to 2 for the
\* current commit 3): a Resize came after that draw
C11_Witness ==
    /\ pc = "draw" /\ dig.CurView = CommitView
    /\ ListHeight = 3 /\ TopIdx = 2 /\ CurIdx = 3

\* C12: the side width has a minimum of 0, as claimed: whatever width the
\* screen is created with, and after any '<', '>' and resize, SideWidth >= 0.
C12_SideWidthMinimum == screen.SideWidth >= 0

\* C13: horizontal scrolling of the window.  The scroll column is never
\* negative; MoveLeft(n) subtracts n and clamps at 0; MoveRight(n) adds
\* exactly n, whatever the text and the viewport width; neither changes
\* anything else of the window.
C13_HorizontalScroll ==
    /\ Win.Bound.Min.O >= 0
    /\ \A n \in (0..MaxMove) \cup {ScrollStep} :
           /\ MoveLeft(Win, n) = [Win EXCEPT !.Bound.Min.O = Max(0, @ - n)]
           /\ MoveRight(Win, n) = [Win EXCEPT !.Bound.Min.O = @ + n]
           /\ MoveLeft(MoveRight(Win, n), n) = Win

\* C13 witness: the diff view scrolled right to column 4, past the end of
\* every line of its text and past the viewport's width
C13_Witness ==
    /\ pc = "draw" /\ dig.CurView = DiffView
    /\ Win.Text # nil /\ Win.Bound.Min.O = 4
    /\ \A i \in 1..Len(Win.Text) : Len(Win.Text[i]) < 4
    /\ Win.Bound.Size.O < 4

\* the display width of a string: the sum of the widths of its runes
RECURSIVE DisplayWidth(_)
DisplayWidth(str) ==
    IF Len(str) = 0 THEN 0 ELSE RuneWidth(Head(str)) + DisplayWidth(Tail(str))

\* the display column of the i-th rune of ln in a viewport scrolled to column s
DisplayColumn(ln, i, s) == DisplayWidth(SubSeq(ln, 1, i - 1)) - s

\* C14: clipping of variable-width text in the diff view.  For a drawn line
\* whose runes are 1 or 2 columns wide, in a viewport of width w scrolled to
\* column s, the display column c of a rune is the sum of the widths of the
\* runes before it, minus s; the cells of the row are exactly the runes with
\* 0 <= c < w, in order, each at column c of the viewport; the runes with
\* c < 0 are decoded but set no cell; and no rune is decoded once the running
\* column has reached w: the decoded runes are those with c < w.
C14_VariableWidthClipping ==
    (pc = "poll" /\ dig.CurView = DiffView)
        => LET a == screen.Diff
               w == a.Bound.Size.O
               s == Win.Bound.Min.O
           IN  \A l \in 0..(DiffMaxL(a) - DiffMinL(a) - 1) :
                   LET ln == a.Text[DiffMinL(a) + l + 1]
                       row == RowCells(a.Bound.Min.L + l)
                       drawn == {i \in 1..Len(ln) : /\ 0 <= DisplayColumn(ln, i, s)
                                                    /\ DisplayColumn(ln, i, s) < w}
                   IN  (\A i \in 1..Len(ln) : RuneWidth(ln[i]) \in {1, 2})
                           => /\ Len(row) = Cardinality(drawn)
                              /\ \A i \in drawn :
                                     LET j == Cardinality({k \in drawn : k <= i})
                                     IN  /\ row[j].ch = ln[i]
                                         /\ row[j].x = a.Bound.Min.O + DisplayColumn(ln, i, s)
                              /\ DiffDecoded(ln, -s, a)
                                     = Cardinality({i \in 1..Len(ln) :
                                                       DisplayColumn(ln, i, s) < w})

\* C14 witness: "aaaWb" drawn three columns wide, scrolled to column 4: the
\* wide rune starts at column -1 and sets no cell, "b" is the one cell, drawn
\* at column 1, and all five runes are decoded
C14_Witness ==
    /\ pc = "poll" /\ dig.CurView = DiffView
    /\ screen.Diff.Text[1] = <<"a", "a", "a", "W", "b">>
    /\ Win.Bound.Min.O = 4 /\ screen.Diff.Bound.Size.O = 3
    /\ Len(RowCells(screen.Diff.Bound.Min.L)) = 1
    /\ RowCells(screen.Diff.Bound.Min.L)[1].ch = "b"
    /\ RowCells(screen.Diff.Bound.Min.L)[1].x = screen.Diff.Bound.Min.O + 1
    /\ DiffDecoded(screen.Diff.Text[1], -4, screen.Diff) = 5

\* the find string of the state after a step is the one before it with one
\* rune appended, or with its last rune deleted
AppendedOrLastDeleted ==
    \/ /\ Len(dig'.FindString) = Len(dig.FindString) + 1
       /\ SubSeq(dig'.FindString, 1, Len(dig.FindString)) = dig.FindString
    \/ /\ Len(dig.FindString) > 0
       /\ dig'.FindString = SubSeq(dig.FindString, 1, Len(dig.FindString) - 1)

\* C16, as claimed: the find string changes only in FindMode, and only by the
\* append of one rune or the deletion of its last rune.
C16_AppendDeleteLastOnly ==
    [][dig'.FindString # dig.FindString
           => dig.Mode = FindMode /\ AppendedOrLastDeleted]_vars

\* C16, amended: the find string changes only in FindMode, and only by the
\* append of one rune, by the deletion of its last rune, or by a cancel key
\* (Esc, Ctrl-Q, Ctrl-K), which empties it and returns to NormalMode;
\* Backspace on the empty find string leaves it empty.
C16_AppendDeleteLastOrCancel ==
    [][/\ dig'.FindString # dig.FindString
           => /\ dig.Mode = FindMode
              /\ \/ AppendedOrLastDeleted
                 \/ /\ dig'.FindString = nil /\ dig'.Mode = NormalMode
                    /\ \E k \in {"KeyEsc", "KeyCtrlQ", "KeyCtrlK"} :
                           State' = handleFind(State, KeyEvent(k))
       /\ (dig.Mode = FindMode /\ dig.FindString = nil)
           => \A k \in {"KeyBackspace", "KeyBackspace2"} :
                  handleFind(State, KeyEvent(k)).dig.FindString = nil]_vars

\* C16 witness: FindMode left by a cancel key typed on a find string of two
\* runes is not told apart from other states, so the witness is the state
\* before it: two runes typed in FindMode
C16_Witness ==
    /\ pc = "draw" /\ dig.Mode = FindMode
    /\ dig.FindString = <<"a", NUL>>

\* C17: input is dispatched to the active area only.  In NormalMode an event
\* that is not a global key changes nothing but the selection index when the
\* commit view is current, and nothing but the window's scroll origin when
\* the diff view is current: the other area, the side width, the mode and
\* the view stay as they are.  A view-toggle key (Enter, Tab, '.') handled
\* twice gives the state before the two.
C17_DispatchToActiveArea ==
    dig.Mode = NormalMode
        => /\ \A ev \in KeyEvents :
                  ~handleNormalGlobalOk(ev)
                      => LET st == handleNormal(State, ev)
                         IN  IF dig.CurView = CommitView
                             THEN st = [State EXCEPT !.screen.Commit.CurIdx =
                                                         st.screen.Commit.CurIdx]
                             ELSE st = [State EXCEPT !.screen.Diff.Win.Bound.Min =
                                                         st.screen.Diff.Win.Bound.Min]
           /\ \A ev \in {KeyEvent("KeyEnter"), KeyEvent("KeyTab"), ChEvent(".")} :
                  /\ handleNormal(State, ev).dig.CurView # dig.CurView
                  /\ handleNormal(handleNormal(State, ev), ev) = State

\* C17 witness: the diff view of a commit other than the first one, moved
\* down and right
C17_Witness ==
    /\ pc = "draw" /\ dig.Mode = NormalMode /\ dig.CurView = DiffView
    /\ CurIdx = 2 /\ Win.Bound.Min = Pt(1, 4)

\* the keys that cancel FindMode
CancelKeys == {"KeyEsc", "KeyCtrlQ", "KeyCtrlK"}

\* C15: event loop ordering.  A step that takes an event from the channel
\* takes the oldest one, is taken between frames only, and is the whole
\* handling of that event and of no other; the step after it is one full
\* redraw (or the end of the program), and only after it is the next event
\* taken.  The polling goroutine appends to the channel and changes nothing
\* else, so the events are handled in the order they were sent.
C15_EventLoopOrdering ==
    [][/\ Len(events') < Len(events)
           => /\ pc = "poll" /\ pc' \in {"draw", "exit"}
              /\ events' = Tail(events)
              /\ LET ev == Head(events)
                 IN  IF ev.Type = "EventKey" /\ dig.Mode = NormalMode /\ IsQuit(ev)
                     THEN pc' = "exit" /\ UNCHANGED <<dig, screen>>
                     ELSE /\ pc' = "draw"
                          /\ IF ev.Type = "EventKey" THEN State' = handleKey(State, ev)
                             ELSE IF ev.Type = "EventResize"
                             THEN /\ dig' = dig
                                  /\ \E size \in TermSizes : screen' = Resize(screen, size)
                             ELSE UNCHANGED <<dig, screen>>
       /\ Len(events') > Len(events)
           => /\ \E ev \in LoopEvents : events' = Append(events, ev)
              /\ UNCHANGED <<dig, screen, pc, cells>>
       /\ Len(events') = Len(events)
           => /\ events' = events
              /\ pc = "poll" => (pc' = "poll" /\ UNCHANGED <<dig, screen, cells>>)
       /\ (pc = "draw" /\ pc' # "draw")
           => /\ pc' \in {"poll", "panic"}
              /\ UNCHANGED <<dig, events>>
              /\ pc' = "poll"
                     => cells' = IF dig.CurView = CommitView
                                 THEN CommitAreaDraw(screen.Commit, dig.Commits).cells
                                 ELSE DiffAreaDraw(screen'.Diff)
       /\ (pc = "draw" /\ pc' = "draw") => UNCHANGED <<dig, screen, cells>>]_vars

\* C15 witness: one Down handled, its redraw not yet done, and two different
\* events already waiting in the channel
C15_Witness ==
    /\ pc = "draw" /\ CurIdx = 1
    /\ Len(events) = 2 /\ events[1] # events[2]

\* C20: the mode transition relation.  A step from NormalMode to FindMode is
\* the handling of Ctrl-F, a step from FindMode to NormalMode the handling of
\* a cancel key (Esc, Ctrl-Q, Ctrl-K), and the program ends from NormalMode
\* only.  Of all events, only Ctrl-F changes the mode in NormalMode and only
\* the cancel keys change it in FindMode: Enter leaves it FindMode, and 'q'
\* typed in FindMode is appended to the find string.
C20_ModeTransitions ==
    [][/\ (dig.Mode = NormalMode /\ dig'.Mode = FindMode)
           => State' = handleKey(State, KeyEvent("KeyCtrlF"))
       /\ (dig.Mode = FindMode /\ dig'.Mode = NormalMode)
           => \E k \in CancelKeys : State' = handleKey(State, KeyEvent(k))
       /\ dig'.Mode \in {NormalMode, FindMode}
       /\ (pc # "exit" /\ pc' = "exit") => dig.Mode = NormalMode
       /\ \A ev \in ModeEvents :
              LET st == handleKey(State, ev)
              IN  /\ dig.Mode = NormalMode
                         => (st.dig.Mode = FindMode <=> ev.Key = "KeyCtrlF")
                  /\ dig.Mode = FindMode
                         => (st.dig.Mode = NormalMode <=> ev.Key \in CancelKeys)
                  /\ st.dig.Mode \in {NormalMode, FindMode}
       /\ dig.Mode = FindMode
           => /\ handleKey(State, KeyEvent("KeyEnter")).dig.Mode = FindMode
              /\ handleKey(State, ChEvent("q"))
                     = [State EXCEPT !.dig.FindString = Append(@, "q")]]_vars

\* C20 witness: 'q' typed in FindMode: it is in the find string, and the loop
\* goes on to the next draw
C20_Witness ==
    /\ pc = "draw" /\ dig.Mode = FindMode
    /\ dig.FindString = <<"q">>

\* the views a last-commit file holds: those of its lines that hold one with
\* a hash free of spaces and tabs
Entries(content) ==
    LET good == SelectSeq(content, LAMBDA ln : /\ ParseView(ln).ok
                                               /\ ~HashInvalid(ParseView(ln).hash))
    IN  [i \in 1..Len(good) |-> [repo |-> ParseView(good[i]).repo,
                                 hash |-> ParseView(good[i]).hash]]

\* no repository path is in two of the views
NoRepoTwice(views) ==
    \A i, j \in 1..Len(views) : i # j => views[i].repo # views[j].repo

\* what every saveLastCommit does, at the quit: the file written is the views
\* written, one line each; the saved repository with the current commit is
\* the first; the views after it are the file's earlier views of the other
\* repositories, in their order, the oldest dropped so that at most MaxViews
\* remain
SavedMostRecentFirst ==
    LET old == Entries(conf)
        others == SelectSeq(old, LAMBDA v : v.repo # dig.RepoDir)
        written == SaveViews(conf, dig.RepoDir, SelectedHash)
    IN  /\ conf' = [i \in 1..Len(written) |-> FormatView(written[i])]
        /\ written[1] = [repo |-> dig.RepoDir, hash |-> SelectedHash]
        /\ Tail(written) = SubSeq(others, 1, Min(Len(others), MaxViews - 1))
        /\ Len(written) <= MaxViews

\* C18, as claimed: after saveLastCommit on any earlier file content the
\* saved repository is first, the others keep their order, at most the
\* retention count remain, and no repository path is in the list twice.
C18_MostRecentFirstAnyContent ==
    [][(pc = "poll" /\ pc' = "exit")
           => /\ SavedMostRecentFirst
              /\ NoRepoTwice(SaveViews(conf, dig.RepoDir, SelectedHash))]_vars

\* C18, amended: after saveLastCommit on any earlier file content the saved
\* repository is first, the others keep their order and at most the retention
\* count remain; and if no repository path was twice in the earlier content
\* (as in every file only dig has written), none is twice in the list.
C18_MostRecentFirst ==
    [][(pc = "poll" /\ pc' = "exit")
           => /\ SavedMostRecentFirst
              /\ NoRepoTwice(Entries(conf))
                     => NoRepoTwice(SaveViews(conf, dig.RepoDir, SelectedHash))]_vars

\* C18 witness: dig quit on "p" with the second commit current, the file
\* then holding "p" first and two other repositories after it
C18_Witness ==
    /\ pc = "exit" /\ dig.RepoDir = <<"p">> /\ CurIdx = 1
    /\ conf = <<FormatView([repo |-> <<"p">>, hash |-> <<"g">>]),
                FormatView([repo |-> <<"s">>, hash |-> <<"h">>]),
                FormatView([repo |-> <<"r">>, hash |-> <<"g">>])>>

\* C19, as claimed: once dig has saved the current commit of its repository
\* at the quit, readLastCommit of that repository returns that commit's hash,
\* without an error.
C19_SaveReadRoundTrip ==
    pc = "exit"
        => readLastCommit(conf, dig.RepoDir) = [hash |-> SelectedHash, err |-> FALSE]

\* C21: in NormalMode the find string is empty.  It is empty when the loop is
\* entered; Ctrl-F enters FindMode with the find string as it is, empty; and
\* every key that leaves FindMode (Esc, Ctrl-Q, Ctrl-K) empties it.
C21_NormalModeEmptyFindString ==
    /\ dig.Mode = NormalMode
           => /\ dig.FindString = nil
              /\ LET st == handleKey(State, KeyEvent("KeyCtrlF"))
                 IN  st.dig.Mode = FindMode /\ st.dig.FindString = nil
    /\ dig.Mode = FindMode
           => \A k \in CancelKeys :
                  LET st == handleKey(State, KeyEvent(k))
                  IN  st.dig.Mode = NormalMode /\ st.dig.FindString = nil

\* C21 witness: NormalMode, the find string empty, in the diff view with the
\* current commit two or more above the top of the list.  A draw of the list
\* leaves the top at most one below the current commit, so the selection
\* moved up while the diff view was shown, which only a find does: FindMode
\* was entered and left
C21_Witness ==
    /\ dig.Mode = NormalMode /\ dig.FindString = nil
    /\ dig.CurView = DiffView /\ pc = "poll"
    /\ CurIdx + 2 <= TopIdx

====
